---- MODULE Spec2Model ----
(***************************************************************************)
(* A model of src/main.py: the `delegate` tool of the Devin session server. *)
(* One call of delegate() is a sequential coroutine: it resolves the API    *)
(* key, POSTs a session, then polls GET /sessions/{id} until the session    *)
(* reports a terminal status, relaying status changes and new messages to   *)
(* a progress sink.  The remote API is the environment: every response is   *)
(* a nondeterministic choice from a bounded set.                            *)
(***************************************************************************)
EXTENDS Integers, Sequences, FiniteSets, TLC

VARIABLES
    env,                 \* os.environ, restricted to DEVIN_API_KEY
    kwargs,              \* the keyword arguments the caller passed
    pc,                  \* where the coroutine stands
    api_key,             \* local api_key
    session_id,          \* local session_id
    last_message_count,  \* local last_message_count
    last_status,         \* local last_status (None or a string)
    sink,                \* texts given to progress.set_message, in order
    requests,            \* HTTP requests issued, in order
    responses,           \* HTTP responses received, in order
    sleeps,              \* durations given to asyncio.sleep, in order
    trace,               \* the kinds of all effects above, interleaved
    result,              \* the value returned (None while not returned)
    error,               \* the exception raised (None while not raised)
    other,               \* a second call of delegate, suspended (or None)
    remote               \* the statuses the remote session has held, in order

vars == <<env, kwargs, pc, api_key, session_id, last_message_count,
          last_status, sink, requests, responses, sleeps, trace, result,
          error, other, remote>>

----------------------------------------------------------------------------
(* Bounds of the model. *)

MaxPolls == 3       \* GETs issued by one call before the model stops it
MaxMsgs == 3        \* longest message list a snapshot carries

----------------------------------------------------------------------------
(* Python values: None and optional values. *)

None == <<>>
Some(v) == <<v>>
Val(o) == o[1]

\* dict.get(key, default)
DictGet(d, k, default) == IF k \in DOMAIN d THEN d[k] ELSE default

----------------------------------------------------------------------------
(* Module constants, main.py:10-12. *)

DEVIN_API_BASE == "https://api.devin.ai/v1"
POLL_INTERVAL_SECONDS == 10
TERMINAL_STATES == {"finished", "blocked", "expired"}

----------------------------------------------------------------------------
(* get_api_key, main.py:17-24.  The result is [ok, value]: the key, or the *)
(* ToolError raised.                                                        *)

ToolError(msg) == [type |-> "ToolError", message |-> msg]

MissingKeyMessage ==
    "DEVIN_API_KEY environment variable is not set. "
    \o "Please set it to your Devin API key (starts with 'apk_')."

get_api_key_unset_only(e) ==
    LET key == DictGet(e, "DEVIN_API_KEY", None)
    IN  IF key = None
        THEN [ok |-> FALSE, value |-> ToolError(MissingKeyMessage)]
        ELSE [ok |-> TRUE, value |-> Val(key)]

get_api_key(e) ==
    LET key == DictGet(e, "DEVIN_API_KEY", None)
    IN  IF key = None \/ Val(key) = ""
        THEN [ok |-> FALSE, value |-> ToolError(MissingKeyMessage)]
        ELSE [ok |-> TRUE, value |-> Val(key)]

----------------------------------------------------------------------------
(* The parameters of delegate, main.py:28-40, and the request body,        *)
(* main.py:67-85.                                                           *)

OptionalParams ==
    {"title", "snapshot_id", "playbook_id", "tags", "max_acu_limit",
     "idempotent", "unlisted", "knowledge_ids", "secret_ids"}

FlagParams == {"idempotent", "unlisted"}

\* Binding of the call's keyword arguments to the parameters: a parameter
\* the caller omits takes its default, None or (for the two flags) False.
Bind(kw) ==
    [k \in OptionalParams \cup {"prompt"} |->
        IF k = "prompt" THEN kw[k]
        ELSE IF k \in FlagParams THEN DictGet(kw, k, FALSE)
        ELSE IF k \in DOMAIN kw THEN Some(kw[k]) ELSE None]

BodyKeysFlagsAlways(p) ==
    {"prompt"}
    \cup {k \in OptionalParams \ FlagParams : p[k] # None}
    \cup FlagParams

BodyKeys(p) ==
    {"prompt"}
    \cup {k \in OptionalParams \ FlagParams : p[k] # None}
    \cup {k \in FlagParams : p[k]}

BuildBody(p) ==
    [k \in BodyKeys(p) |->
        IF k = "prompt" \/ k \in FlagParams THEN p[k] ELSE Val(p[k])]

----------------------------------------------------------------------------
(* HTTP.  A response is [status_code, text, json]: json is the parsed body, *)
(* None when the text is not JSON.                                          *)

Response(code, text, json) ==
    [status_code |-> code, text |-> text, json |-> json]

AuthHeaders(key) == [Authorization |-> "Bearer " \o key]

PostRequest(key, body) ==
    [method |-> "POST", url |-> DEVIN_API_BASE \o "/sessions",
     headers |-> AuthHeaders(key), json |-> Some(body)]

GetRequestNoId(key, sid) ==
    [method |-> "GET", url |-> DEVIN_API_BASE \o "/sessions",
     headers |-> AuthHeaders(key), json |-> None]

GetRequest(key, sid) ==
    [method |-> "GET", url |-> DEVIN_API_BASE \o "/sessions/" \o sid,
     headers |-> AuthHeaders(key), json |-> None]

InvalidKeyMessage == "Invalid API key. Please check your DEVIN_API_KEY."

ApiErrorMessage(r) ==
    "Devin API error (status " \o ToString(r.status_code) \o "): " \o r.text

\* main.py:94-101: the error the create response raises, None when it passes.
CreateError(r) ==
    IF r.status_code = 401 THEN Some(ToolError(InvalidKeyMessage))
    ELSE IF r.status_code = 422
         THEN Some(ToolError("Validation error: " \o r.text))
    ELSE IF r.status_code # 200 THEN Some(ToolError(ApiErrorMessage(r)))
    ELSE None

PollErrorNo404(r, sid) ==
    IF r.status_code = 401 THEN Some(ToolError(InvalidKeyMessage))
    ELSE IF r.status_code # 200 THEN Some(ToolError(ApiErrorMessage(r)))
    ELSE None

PollErrorWith422(r, sid) ==
    IF r.status_code = 404
    THEN Some(ToolError("Session '" \o sid \o "' not found during monitoring."))
    ELSE IF r.status_code = 401 THEN Some(ToolError(InvalidKeyMessage))
    ELSE IF r.status_code = 422
         THEN Some(ToolError("Validation error: " \o r.text))
    ELSE IF r.status_code # 200 THEN Some(ToolError(ApiErrorMessage(r)))
    ELSE None

\* main.py:117-124: the error a poll response raises, None when it passes.
PollError(r, sid) ==
    IF r.status_code = 404
    THEN Some(ToolError("Session '" \o sid \o "' not found during monitoring."))
    ELSE IF r.status_code = 401 THEN Some(ToolError(InvalidKeyMessage))
    ELSE IF r.status_code # 200 THEN Some(ToolError(ApiErrorMessage(r)))
    ELSE None

----------------------------------------------------------------------------
(* One poll cycle after a passing response, main.py:126-151.               *)

DisplayFrom200(msg_content) ==
    IF Len(msg_content) >= 200
    THEN SubSeq(msg_content, 1, 200) \o "..."
    ELSE msg_content

\* main.py:139-143
Display(msg_content) ==
    IF Len(msg_content) > 200
    THEN SubSeq(msg_content, 1, 200) \o "..."
    ELSE msg_content

\* main.py:137-144: the line reported for one message
MessageLine(msg) ==
    "[" \o DictGet(msg, "type", "message") \o "] "
    \o Display(DictGet(msg, "message", ""))

\* main.py:127-128
CurrentStatus(session_data) == DictGet(session_data, "status_enum", "unknown")
Messages(session_data) == DictGet(session_data, "messages", <<>>)

StatusChangedAlways(current_status, ls) == TRUE

StatusChangedSkipFirst(current_status, ls) ==
    ls # None /\ Some(current_status) # ls

\* main.py:130-132
StatusChanged(current_status, ls) == Some(current_status) # ls
StatusLines(current_status, ls) ==
    IF StatusChanged(current_status, ls)
    THEN <<"Status: " \o current_status>>
    ELSE <<>>

\* main.py:134-145
HasNewMessages(messages, lmc) == Len(messages) > lmc
NewMessagesAll(messages, lmc) == messages
NewMessages(messages, lmc) == SubSeq(messages, lmc + 1, Len(messages))
MessageLines(messages, lmc) ==
    IF HasNewMessages(messages, lmc)
    THEN LET new_messages == NewMessages(messages, lmc)
         IN  [i \in 1..Len(new_messages) |-> MessageLine(new_messages[i])]
    ELSE <<>>
NextMessageCountFollows(messages, lmc) == Len(messages)
NextMessageCount(messages, lmc) ==
    IF HasNewMessages(messages, lmc) THEN Len(messages) ELSE lmc

IsTerminalFinishedOnly(current_status) == current_status = "finished"

IsTerminalNotWorking(current_status) == current_status # "working"

\* main.py:147-148
IsTerminal(current_status) == current_status \in TERMINAL_STATES
TerminalLines(current_status) ==
    IF IsTerminal(current_status)
    THEN <<"Session " \o current_status>>
    ELSE <<>>

CycleLinesTerminalFirst(session_data, ls, lmc) ==
    TerminalLines(CurrentStatus(session_data))
    \o StatusLines(CurrentStatus(session_data), ls)
    \o MessageLines(Messages(session_data), lmc)

\* All the lines one poll cycle gives the sink, in the order of the code.
CycleLines(session_data, ls, lmc) ==
    StatusLines(CurrentStatus(session_data), ls)
    \o MessageLines(Messages(session_data), lmc)
    \o TerminalLines(CurrentStatus(session_data))

----------------------------------------------------------------------------
(* The inputs: the environment, the caller's arguments, the remote's       *)
(* responses.                                                               *)

Envs ==
    {<<>>,                                   \* DEVIN_API_KEY not set
     [DEVIN_API_KEY |-> Some("")],           \* set to the empty string
     [DEVIN_API_KEY |-> Some("apk_test123")]}

\* A value for each optional parameter: one that is falsy in Python and one
\* that is not.
FalsyValue(k) ==
    CASE k \in {"title", "snapshot_id", "playbook_id"} -> ""
      [] k \in {"tags", "knowledge_ids", "secret_ids"} -> <<>>
      [] k = "max_acu_limit" -> 0
      [] k \in FlagParams -> FALSE

TruthyValue(k) ==
    CASE k = "title" -> "My Session"
      [] k = "snapshot_id" -> "snap_123"
      [] k = "playbook_id" -> "play_123"
      [] k = "tags" -> <<"test", "ci">>
      [] k = "max_acu_limit" -> 100
      [] k \in FlagParams -> TRUE
      [] k = "knowledge_ids" -> <<"know_1", "know_2">>
      [] k = "secret_ids" -> <<"sec_1">>

\* The call that, for every optional parameter k, omits it (c[k] = 0),
\* passes its falsy value (1) or passes its other value (2).
Call(c) ==
    [k \in {"prompt"} \cup {o \in OptionalParams : c[o] # 0} |->
        IF k = "prompt" THEN "Test prompt"
        ELSE IF c[k] = 1 THEN FalsyValue(k) ELSE TruthyValue(k)]

AllCalls == {Call(c) : c \in [OptionalParams -> {0, 1, 2}]}
SampleCalls ==
    {Call([k \in OptionalParams |-> 0]), Call([k \in OptionalParams |-> 2])}

SessionIds == {"sess_123", "sess_456"}
ErrorText == "{\"detail\":\"Validation failed\"}"

\* The answers to POST /sessions: a 2xx status with a body (the session, a
\* JSON object without session_id, or no JSON at all), or an error status.
CreateCodes == {200, 201, 401, 404, 422, 500}
SuccessCodes == {200, 201}
CreateBodies ==
    {Some([session_id |-> s, url |-> "https://app.devin.ai/sessions/" \o s]) :
        s \in SessionIds}
    \cup {Some([url |-> "..."]), None}
CreateResponses ==
    {Response(c, "{...}", j) : c \in SuccessCodes, j \in CreateBodies}
    \cup {Response(c, ErrorText, None) : c \in CreateCodes \ SuccessCodes}

\* The remote's message log: the two messages of the tests, alternating.
RemoteLog(n) ==
    [i \in 1..n |->
        IF i % 2 = 1
        THEN [type |-> "user_message", message |-> "Hello"]
        ELSE [type |-> "devin_message", message |-> "Hi there!"]]

\* The message lists a snapshot may carry: any contiguous part of a log of
\* MaxMsgs messages, so that from one poll to the next the list may grow,
\* stay, shrink, or hold other messages at the same indexes.
MessageLists ==
    {SubSeq(RemoteLog(MaxMsgs), i, j) : i \in 1..MaxMsgs, j \in 0..MaxMsgs}

Statuses == {"working", "finished", "blocked", "expired"}

\* The snapshots GET /sessions/{sid} may answer: status_enum and messages
\* are each present or absent.
Snapshots(sid) ==
    LET base == [session_id |-> sid]
        withStatus == {base} \cup
            {[k \in {"session_id", "status_enum"} |->
                IF k = "session_id" THEN sid ELSE s] : s \in Statuses}
    IN  withStatus \cup
        {[k \in DOMAIN d \cup {"messages"} |->
            IF k = "messages" THEN m ELSE d[k]] :
            d \in withStatus, m \in MessageLists}

PollCodes == {200, 201, 401, 404, 422, 500}
PollResponses(sid) ==
    {Response(200, "{...}", Some(d)) : d \in Snapshots(sid)}
    \cup {Response(200, "<html>", None)}
    \cup {Response(c, ErrorText, None) : c \in PollCodes \ {200}}

----------------------------------------------------------------------------
(* The call.                                                                *)

Init ==
    /\ env \in Envs
    /\ kwargs \in SampleCalls
    /\ pc = "start"
    /\ api_key = None
    /\ session_id = None
    /\ last_message_count = 0
    /\ last_status = None
    /\ sink = <<>>
    /\ requests = <<>>
    /\ responses = <<>>
    /\ sleeps = <<>>
    /\ trace = <<>>
    /\ result = None
    /\ error = None
    /\ other = None
    /\ remote = <<>>

Emit(lines) ==
    /\ sink' = sink \o lines
    /\ trace' = trace \o [i \in 1..Len(lines) |-> "emit"]

RaiseAndRetry(e) ==
    /\ pc' = (IF pc = "await_post" THEN "creating"
              ELSE IF pc = "await_get" THEN "sleeping" ELSE "failed")
    /\ error' = Some(e)
    /\ trace' = Append(trace, "raise")

Raise(e) ==
    /\ pc' = "failed"
    /\ error' = Some(e)
    /\ trace' = Append(trace, "raise")

\* main.py:63-65
Start ==
    /\ pc = "start"
    /\ LET k == get_api_key(env)
       IN  IF ~k.ok
           THEN /\ Raise(k.value)
                /\ UNCHANGED <<api_key, sink>>
           ELSE /\ api_key' = Some(k.value)
                /\ Emit(<<"Creating Devin session...">>)
                /\ pc' = "creating"
                /\ UNCHANGED error
    /\ UNCHANGED <<env, kwargs, session_id, last_message_count, last_status,
                   requests, responses, sleeps, result, other, remote>>

\* main.py:67-92
Post ==
    /\ pc = "creating"
    /\ requests' = Append(requests, PostRequest(Val(api_key), BuildBody(Bind(kwargs))))
    /\ trace' = Append(trace, "POST")
    /\ pc' = "await_post"
    /\ UNCHANGED <<env, kwargs, api_key, session_id, last_message_count,
                   last_status, sink, responses, sleeps, result, error,
                   other, remote>>

\* main.py:94-109, for an answer out of R
CreateResponseFrom(R) ==
    /\ pc = "await_post"
    /\ \E r \in R :
        /\ responses' = Append(responses, r)
        /\ IF CreateError(r) # None
           THEN /\ Raise(Val(CreateError(r)))
                /\ UNCHANGED <<session_id, sink>>
           ELSE IF r.json = None
           THEN /\ Raise([type |-> "JSONDecodeError", message |-> r.text])
                /\ UNCHANGED <<session_id, sink>>
           ELSE IF "session_id" \notin DOMAIN Val(r.json)
           THEN /\ Raise([type |-> "KeyError", message |-> "session_id"])
                /\ UNCHANGED <<session_id, sink>>
           ELSE /\ session_id' = Some(Val(r.json)["session_id"])
                /\ Emit(<<"Session created: " \o Val(r.json)["session_id"]>>)
                /\ pc' = "poll"
                /\ UNCHANGED error
    /\ IF pc' = "poll"
       THEN last_message_count' = 0 /\ last_status' = None
       ELSE UNCHANGED <<last_message_count, last_status>>
    /\ UNCHANGED <<env, kwargs, api_key, requests, sleeps, result, other,
                   remote>>

CreateResponse == CreateResponseFrom(CreateResponses)

\* main.py:112-115
Get ==
    /\ pc = "poll"
    /\ Len(SelectSeq(requests, LAMBDA q : q.method = "GET")) < MaxPolls
    /\ requests' = Append(requests, GetRequest(Val(api_key), Val(session_id)))
    /\ trace' = Append(trace, "GET")
    /\ pc' = "await_get"
    /\ UNCHANGED <<env, kwargs, api_key, session_id, last_message_count,
                   last_status, sink, responses, sleeps, result, error,
                   other, remote>>

\* main.py:117-151: from the response to the return or to the sleep, for an
\* answer out of R
PollResponseFrom(R) ==
    /\ pc = "await_get"
    /\ \E r \in R :
        /\ responses' = Append(responses, r)
        /\ IF PollError(r, Val(session_id)) # None
           THEN /\ Raise(Val(PollError(r, Val(session_id))))
                /\ UNCHANGED <<last_message_count, last_status, sink, sleeps,
                               result>>
           ELSE IF r.json = None
           THEN /\ Raise([type |-> "JSONDecodeError", message |-> r.text])
                /\ UNCHANGED <<last_message_count, last_status, sink, sleeps,
                               result>>
           ELSE LET session_data == Val(r.json)
                    current_status == CurrentStatus(session_data)
                    messages == Messages(session_data)
                    lines == CycleLines(session_data, last_status,
                                        last_message_count)
                IN  /\ last_status' =
                           IF StatusChanged(current_status, last_status)
                           THEN Some(current_status)
                           ELSE last_status
                    /\ last_message_count' =
                           NextMessageCount(messages, last_message_count)
                    /\ sink' = sink \o lines
                    /\ IF IsTerminal(current_status)
                       THEN /\ result' = Some(session_data)
                            /\ pc' = "returned"
                            /\ trace' = trace
                                   \o [i \in 1..Len(lines) |-> "emit"]
                                   \o <<"return">>
                            /\ UNCHANGED sleeps
                       ELSE /\ sleeps' = Append(sleeps, POLL_INTERVAL_SECONDS)
                            /\ pc' = "sleeping"
                            /\ trace' = trace
                                   \o [i \in 1..Len(lines) |-> "emit"]
                                   \o <<"sleep">>
                            /\ UNCHANGED result
                    /\ UNCHANGED error
    /\ UNCHANGED <<env, kwargs, api_key, session_id, requests, other,
                   remote>>

PollResponse == PollResponseFrom(PollResponses(Val(session_id)))

LoopConditionTwice(polls) == polls < 2

\* main.py:111: `while True`
LoopCondition(polls) == TRUE

\* main.py:151, 111: the sleep ends and the loop condition is tested; a loop
\* that ended would fall off the function, which returns None.
Wake ==
    /\ pc = "sleeping"
    /\ pc' = (IF LoopCondition(Len(sleeps)) THEN "poll" ELSE "returned")
    /\ UNCHANGED <<env, kwargs, api_key, session_id, last_message_count,
                   last_status, sink, requests, responses, sleeps, trace,
                   result, error, other, remote>>

Next == Start \/ Post \/ CreateResponse \/ Get \/ PollResponse \/ Wake

Spec == Init /\ [][Next]_vars

----------------------------------------------------------------------------
(* The call up to its POST, for every combination of optional parameters:  *)
(* each one omitted, passed falsy, or passed with another value.           *)

InitBody ==
    /\ env \in Envs
    /\ kwargs \in AllCalls
    /\ pc = "start"
    /\ api_key = None
    /\ session_id = None
    /\ last_message_count = 0
    /\ last_status = None
    /\ sink = <<>>
    /\ requests = <<>>
    /\ responses = <<>>
    /\ sleeps = <<>>
    /\ trace = <<>>
    /\ result = None
    /\ error = None
    /\ other = None
    /\ remote = <<>>

NextBody == Start \/ Post

SpecBody == InitBody /\ [][NextBody]_vars

----------------------------------------------------------------------------
(* The call against a remote whose messages have contents of up to 300      *)
(* characters, around the 200 characters that Display keeps.                *)

Digits == "0123456789"

\* A content of n characters: 0123456789012...
RECURSIVE Content(_)
Content(n) ==
    IF n <= Len(Digits) THEN SubSeq(Digits, 1, n)
    ELSE Digits \o Content(n - Len(Digits))

ContentLengths == {0, 1, 199, 200, 201, 203, 300}

LongMessages ==
    {[type |-> "devin_message", message |-> Content(n)] : n \in ContentLengths}
    \cup {[type |-> "devin_message"], [message |-> Content(201)]}

\* Lists of one message, or of a second message after "Hello".
LongLists ==
    {<<>>} \cup {<<m>> : m \in LongMessages}
    \cup {<<RemoteLog(1)[1], m>> : m \in LongMessages}

LongPollResponses(sid) ==
    {Response(200, "{...}",
              Some([session_id |-> sid, status_enum |-> s, messages |-> m])) :
        s \in {"working", "finished"}, m \in LongLists}

InitLong ==
    /\ env = [DEVIN_API_KEY |-> Some("apk_test123")]
    /\ kwargs = Call([k \in OptionalParams |-> 0])
    /\ pc = "start"
    /\ api_key = None
    /\ session_id = None
    /\ last_message_count = 0
    /\ last_status = None
    /\ sink = <<>>
    /\ requests = <<>>
    /\ responses = <<>>
    /\ sleeps = <<>>
    /\ trace = <<>>
    /\ result = None
    /\ error = None
    /\ other = None
    /\ remote = <<>>

PollResponseLong == PollResponseFrom(LongPollResponses(Val(session_id)))

NextLong ==
    Start \/ Post \/ CreateResponse \/ Get \/ PollResponseLong \/ Wake

SpecLong == InitLong /\ [][NextLong]_vars

----------------------------------------------------------------------------
(* The call with a caller who may cancel it.  asyncio delivers the          *)
(* cancellation as a CancelledError raised at the await where the coroutine *)
(* is suspended: the POST (main.py:88), the GET (main.py:112), the sleep    *)
(* (main.py:151) or a progress.set_message (main.py:65, 107, 132, 144,      *)
(* 148).  delegate has no try/except, so the error unwinds the call.        *)

CancelPollResponses(sid) ==
    {Response(200, "{...}",
              Some([session_id |-> sid, status_enum |-> s, messages |-> m])) :
        s \in {"working", "finished"},
        m \in {SubSeq(RemoteLog(MaxMsgs), 1, j) : j \in 0..2}}
    \cup {Response(404, ErrorText, None)}

InitCancel ==
    /\ env = [DEVIN_API_KEY |-> Some("apk_test123")]
    /\ kwargs = Call([k \in OptionalParams |-> 0])
    /\ pc = "start"
    /\ api_key = None
    /\ session_id = None
    /\ last_message_count = 0
    /\ last_status = None
    /\ sink = <<>>
    /\ requests = <<>>
    /\ responses = <<>>
    /\ sleeps = <<>>
    /\ trace = <<>>
    /\ result = None
    /\ error = None
    /\ other = None
    /\ remote = <<>>

CancelledAfterSleepResumes(written) ==
    /\ pc' = (IF pc = "sleeping" THEN "poll" ELSE "cancelled")
    /\ error' = Some([type |-> "CancelledError", message |-> ""])
    /\ sink' = sink \o written
    /\ trace' = trace \o [i \in 1..Len(written) |-> "emit"] \o <<"cancel">>

\* CancelledError leaves delegate; `written` are the texts the sink took
\* since the last step, before the error arrived.
Cancelled(written) ==
    /\ pc' = "cancelled"
    /\ error' = Some([type |-> "CancelledError", message |-> ""])
    /\ sink' = sink \o written
    /\ trace' = trace \o [i \in 1..Len(written) |-> "emit"] \o <<"cancel">>

\* main.py:88, 112: cancelled while the request is awaited
CancelAtRequest ==
    /\ pc \in {"await_post", "await_get"}
    /\ Cancelled(<<>>)
    /\ UNCHANGED <<env, kwargs, api_key, session_id, last_message_count,
                   last_status, requests, responses, sleeps, result, other,
                   remote>>

\* main.py:151: cancelled during the poll-interval wait
CancelAtSleep ==
    /\ pc = "sleeping"
    /\ Cancelled(<<>>)
    /\ UNCHANGED <<env, kwargs, api_key, session_id, last_message_count,
                   last_status, requests, responses, sleeps, result, other,
                   remote>>

\* main.py:65: cancelled at the first set_message, which has or has not
\* written its text
CancelAtCreating ==
    /\ pc = "start"
    /\ get_api_key(env).ok
    /\ api_key' = Some(get_api_key(env).value)
    /\ \E n \in 0..1 : Cancelled(SubSeq(<<"Creating Devin session...">>, 1, n))
    /\ UNCHANGED <<env, kwargs, session_id, last_message_count, last_status,
                   requests, responses, sleeps, result, other, remote>>

\* main.py:94-107: the create answer passes and the call is cancelled at the
\* set_message that follows
CancelAtCreated ==
    /\ pc = "await_post"
    /\ \E r \in CreateResponses :
        /\ CreateError(r) = None
        /\ r.json # None
        /\ "session_id" \in DOMAIN Val(r.json)
        /\ responses' = Append(responses, r)
        /\ session_id' = Some(Val(r.json)["session_id"])
        /\ \E n \in 0..1 :
            Cancelled(SubSeq(<<"Session created: " \o Val(r.json)["session_id"]>>,
                             1, n))
    /\ UNCHANGED <<env, kwargs, api_key, last_message_count, last_status,
                   requests, sleeps, result, other, remote>>

\* main.py:117-148: the poll answer passes and the call is cancelled at one
\* of the cycle's set_message awaits, after n of its texts were written.
\* The locals are left as they were: they die with the frame.
CancelInCycle ==
    /\ pc = "await_get"
    /\ \E r \in CancelPollResponses(Val(session_id)) :
        /\ PollError(r, Val(session_id)) = None
        /\ r.json # None
        /\ responses' = Append(responses, r)
        /\ LET lines == CycleLines(Val(r.json), last_status, last_message_count)
           IN  /\ lines # <<>>
               /\ \E n \in 0..Len(lines) : Cancelled(SubSeq(lines, 1, n))
    /\ UNCHANGED <<env, kwargs, api_key, session_id, last_message_count,
                   last_status, requests, sleeps, result, other, remote>>

PollResponseCancel == PollResponseFrom(CancelPollResponses(Val(session_id)))

NextCancel ==
    \/ Start \/ Post \/ CreateResponse \/ Get \/ PollResponseCancel \/ Wake
    \/ CancelAtRequest \/ CancelAtSleep \/ CancelAtCreating
    \/ CancelAtCreated \/ CancelInCycle

SpecCancel == InitCancel /\ [][NextCancel]_vars

----------------------------------------------------------------------------
(* Two calls of delegate on one event loop.  One call runs; the other is    *)
(* suspended at an await with its frame kept in `other`.  The calls share   *)
(* the process environment and the module constants (main.py:10-12), and    *)
(* nothing else: every other name delegate assigns is a local.              *)

\* The frame of the running call.
Frame ==
    [kwargs |-> kwargs, pc |-> pc, api_key |-> api_key,
     session_id |-> session_id, last_message_count |-> last_message_count,
     last_status |-> last_status, sink |-> sink, requests |-> requests,
     responses |-> responses, sleeps |-> sleeps, trace |-> trace,
     result |-> result, error |-> error]

ResumedCountersShared(f) == <<last_message_count, last_status>>

\* main.py:109-110: last_message_count and last_status are locals, so a
\* call that resumes finds its own.
ResumedCounters(f) == <<f.last_message_count, f.last_status>>

\* The remote gives every POST a session of its own.
TwoCreateResponses ==
    {Response(200, "{...}",
              Some([session_id |-> s,
                    url |-> "https://app.devin.ai/sessions/" \o s])) :
        s \in {t \in SessionIds : Some(t) # other.session_id}}

TwoPollResponses(sid) ==
    {Response(200, "{...}",
              Some([session_id |-> sid, status_enum |-> s, messages |-> m])) :
        s \in {"working", "finished"},
        m \in {SubSeq(RemoteLog(MaxMsgs), 1, j) : j \in 0..2}}

InitTwo ==
    /\ env = [DEVIN_API_KEY |-> Some("apk_test123")]
    /\ kwargs = Call([k \in OptionalParams |-> 0])
    /\ pc = "start"
    /\ api_key = None
    /\ session_id = None
    /\ last_message_count = 0
    /\ last_status = None
    /\ sink = <<>>
    /\ requests = <<>>
    /\ responses = <<>>
    /\ sleeps = <<>>
    /\ trace = <<>>
    /\ result = None
    /\ error = None
    /\ other = [Frame EXCEPT !.kwargs = Call([k \in OptionalParams |-> 2])]
    /\ remote = <<>>

\* The running call is suspended at its await and the other call resumes.
Switch ==
    /\ other.pc \notin {"returned", "failed"}
    /\ other' = Frame
    /\ kwargs' = other.kwargs
    /\ pc' = other.pc
    /\ api_key' = other.api_key
    /\ session_id' = other.session_id
    /\ last_message_count' = ResumedCounters(other)[1]
    /\ last_status' = ResumedCounters(other)[2]
    /\ sink' = other.sink
    /\ requests' = other.requests
    /\ responses' = other.responses
    /\ sleeps' = other.sleeps
    /\ trace' = other.trace
    /\ result' = other.result
    /\ error' = other.error
    /\ UNCHANGED <<env, remote>>

CreateResponseTwo == CreateResponseFrom(TwoCreateResponses)
PollResponseTwo == PollResponseFrom(TwoPollResponses(Val(session_id)))

NextTwo ==
    \/ Start \/ Post \/ CreateResponseTwo \/ Get \/ PollResponseTwo \/ Wake
    \/ Switch

SpecTwo == InitTwo /\ [][NextTwo]_vars

----------------------------------------------------------------------------
(* The call against a remote whose session changes status on its own, and   *)
(* whose every answer succeeds: a poll is answered with the status the      *)
(* session has when the answer is made.  The event loop is fair to the      *)
(* call: a request is answered, a sleep ends, a ready coroutine runs.       *)

RemoteStatus == remote[Len(remote)]

FairCreateResponses ==
    {Response(200, "{...}",
              Some([session_id |-> s,
                    url |-> "https://app.devin.ai/sessions/" \o s])) :
        s \in SessionIds}

FairPollResponses(sid) ==
    {Response(200, "{...}",
              Some([session_id |-> sid, status_enum |-> RemoteStatus,
                    messages |-> m])) :
        m \in {SubSeq(RemoteLog(MaxMsgs), 1, j) : j \in 0..1}}

InitFair ==
    /\ env = [DEVIN_API_KEY |-> Some("apk_test123")]
    /\ kwargs = Call([k \in OptionalParams |-> 0])
    /\ pc = "start"
    /\ api_key = None
    /\ session_id = None
    /\ last_message_count = 0
    /\ last_status = None
    /\ sink = <<>>
    /\ requests = <<>>
    /\ responses = <<>>
    /\ sleeps = <<>>
    /\ trace = <<>>
    /\ result = None
    /\ error = None
    /\ other = None
    /\ remote \in {<<s>> : s \in Statuses}

\* The session takes another status; the model follows MaxPolls changes.
RemoteStep ==
    /\ Len(remote) <= MaxPolls
    /\ \E s \in Statuses \ {RemoteStatus} : remote' = Append(remote, s)
    /\ UNCHANGED <<env, kwargs, pc, api_key, session_id, last_message_count,
                   last_status, sink, requests, responses, sleeps, trace,
                   result, error, other>>

CreateResponseFair == CreateResponseFrom(FairCreateResponses)
PollResponseFair == PollResponseFrom(FairPollResponses(Val(session_id)))

CallStep ==
    Start \/ Post \/ CreateResponseFair \/ Get \/ PollResponseFair \/ Wake

NextFair == CallStep \/ RemoteStep

SpecFair == InitFair /\ [][NextFair]_vars /\ WF_vars(CallStep)

----------------------------------------------------------------------------
(* What the properties below read off a run.                                *)

StartsWith(s, prefix) ==
    Len(s) >= Len(prefix) /\ SubSeq(s, 1, Len(prefix)) = prefix

Last(q) == q[Len(q)]

\* The responses to the GETs, in order (the first response answers the POST).
PollsSeen == SubSeq(responses, 2, Len(responses))

GetsIssued == SelectSeq(requests, LAMBDA q : q.method = "GET")

\* A poll answered successfully: HTTP 200 with a JSON body.
Answered(r) == r.status_code = 200 /\ r.json # None

\* The snapshots of the polls answered successfully, in order.
SnapshotsSeen ==
    LET ok == SelectSeq(PollsSeen, Answered)
    IN  [i \in 1..Len(ok) |-> Val(ok[i].json)]

HasTerminalStatus(d) ==
    "status_enum" \in DOMAIN d
    /\ d["status_enum"] \in {"finished", "blocked", "expired"}

\* The status a snapshot reports; one without the field counts as "unknown".
ReportedStatus(d) ==
    IF "status_enum" \in DOMAIN d THEN d["status_enum"] ELSE "unknown"

ReportedMessages(d) ==
    IF "messages" \in DOMAIN d THEN d["messages"] ELSE <<>>

StatusEmissions == SelectSeq(sink, LAMBDA t : StartsWith(t, "Status: "))
MessageEmissions == SelectSeq(sink, LAMBDA t : StartsWith(t, "["))
TerminalEmissions ==
    SelectSeq(sink, LAMBDA t :
        StartsWith(t, "Session ") /\ ~StartsWith(t, "Session created: "))

\* A sequence with every run of equal consecutive elements cut to one.
RECURSIVE Runs(_)
Runs(q) ==
    IF Len(q) <= 1 THEN q
    ELSE IF q[1] = q[2] THEN Runs(Tail(q))
    ELSE <<q[1]>> \o Runs(Tail(q))

----------------------------------------------------------------------------
\* C1: delegate has returned a value if and only if a poll was answered
\* successfully with a status in {finished, blocked, expired}; that poll is
\* the first such poll and the last GET issued, and the value returned is
\* the snapshot of that poll, unmodified.
C1_ReturnsIffTerminalPoll ==
    LET terminal == {i \in 1..Len(PollsSeen) :
                        Answered(PollsSeen[i])
                        /\ HasTerminalStatus(Val(PollsSeen[i].json))}
    IN  /\ (result # None) <=> (terminal # {})
        /\ result # None =>
            /\ pc = "returned"
            /\ error = None
            /\ terminal = {Len(PollsSeen)}
            /\ Len(GetsIssued) = Len(PollsSeen)
            /\ Val(result) = Val(Last(PollsSeen).json)
            /\ HasTerminalStatus(Val(result))

\* C1 witness: the call returned a blocked snapshot at its third poll.
C1_Witness ==
    /\ result # None
    /\ Len(PollsSeen) = 3
    /\ Val(result)["status_enum"] = "blocked"
    /\ "messages" \in DOMAIN Val(result)
    /\ Len(Val(result)["messages"]) = 2

\* C2: the "Status:" lines of the sink are exactly one line per run of equal
\* consecutive statuses in the sequence of successful polls, in order.
C2_StatusOncePerRun ==
    LET statuses == [i \in 1..Len(SnapshotsSeen) |->
                        ReportedStatus(SnapshotsSeen[i])]
        runs == Runs(statuses)
    IN  StatusEmissions = [i \in 1..Len(runs) |-> "Status: " \o runs[i]]

\* C2 witness: polls working, working, finished gave two "Status:" lines.
C2_Witness ==
    /\ Len(SnapshotsSeen) = 3
    /\ [i \in 1..3 |-> ReportedStatus(SnapshotsSeen[i])]
           = <<"working", "working", "finished">>
    /\ StatusEmissions = <<"Status: working", "Status: finished">>

IsPrefix(p, q) == Len(p) <= Len(q) /\ SubSeq(q, 1, Len(p)) = p

\* Every poll's message list extends the list of the poll before it.
AppendOnly ==
    \A i \in 2..Len(SnapshotsSeen) :
        IsPrefix(ReportedMessages(SnapshotsSeen[i - 1]),
                 ReportedMessages(SnapshotsSeen[i]))

\* C3: when every poll's message list extends the previous one, the message
\* lines of the sink are the messages of the latest list, each once, in list
\* order, as "[type] content", and last_message_count is that list's length.
C3_MessagesOnceInOrder ==
    (Len(SnapshotsSeen) >= 1 /\ AppendOnly) =>
        LET final == ReportedMessages(Last(SnapshotsSeen))
        IN  /\ MessageEmissions =
                   [i \in 1..Len(final) |->
                       "[" \o final[i]["type"] \o "] " \o final[i]["message"]]
            /\ last_message_count = Len(final)

\* C3 witness: the list grew from [Hello] to [Hello, Hi there!] over two
\* polls and each message was reported once.
C3_Witness ==
    /\ Len(SnapshotsSeen) = 2
    /\ Len(ReportedMessages(SnapshotsSeen[1])) = 1
    /\ Len(ReportedMessages(SnapshotsSeen[2])) = 2
    /\ AppendOnly
    /\ MessageEmissions = <<"[user_message] Hello", "[devin_message] Hi there!">>
    /\ last_message_count = 2

\* The kind of a sink line: a status change, a message, the terminal
\* announcement, or another line.
LineKind(t) ==
    IF StartsWith(t, "Status: ") THEN 1
    ELSE IF StartsWith(t, "[") THEN 2
    ELSE IF StartsWith(t, "Session ") /\ ~StartsWith(t, "Session created: ")
         THEN 3
    ELSE 0

\* C4: the lines one poll cycle adds to the sink are, in this order, at most
\* one status line, then message lines, then "Session {status}" exactly when
\* the call returns; that line is then the last of the sink and the only
\* one of its kind, and nothing is emitted after the return.
C4_CycleOrder ==
    [][/\ pc = "await_get" =>
            LET new == SubSeq(sink', Len(sink) + 1, Len(sink'))
                kinds == [i \in 1..Len(new) |-> LineKind(new[i])]
                count(k) == Cardinality({i \in 1..Len(new) : kinds[i] = k})
            IN  /\ \A i \in 1..Len(new) : kinds[i] \in {1, 2, 3}
                /\ \A i, j \in 1..Len(new) : i < j => kinds[i] <= kinds[j]
                /\ count(1) <= 1
                /\ count(3) = IF pc' = "returned" THEN 1 ELSE 0
                /\ pc' = "returned" =>
                    /\ Last(sink') = "Session " \o ReportedStatus(Val(result'))
                    /\ Len(TerminalEmissions') = 1
       /\ pc = "returned" => sink' = sink]_vars

\* C4 witness: the returning cycle reported a status change and a new
\* message before the terminal announcement.
C4_Witness ==
    /\ pc = "returned"
    /\ Len(SnapshotsSeen) = 2
    /\ Len(sink) >= 3
    /\ SubSeq(sink, Len(sink) - 2, Len(sink)) =
           <<"Status: finished", "[devin_message] Hi there!", "Session finished">>

EndsWith(s, suffix) ==
    Len(s) >= Len(suffix)
    /\ SubSeq(s, Len(s) - Len(suffix) + 1, Len(s)) = suffix

\* The class of an error, read off its type and message.
ErrorClass(e) ==
    IF e.type # "ToolError" THEN e.type
    ELSE IF StartsWith(e.message, "DEVIN_API_KEY environment variable is not set.")
         THEN "MissingCredential"
    ELSE IF e.message = "Invalid API key. Please check your DEVIN_API_KEY."
         THEN "Unauthorized"
    ELSE IF StartsWith(e.message, "Validation error: ") THEN "InvalidRequest"
    ELSE IF StartsWith(e.message, "Session '")
            /\ EndsWith(e.message, "' not found during monitoring.")
         THEN "SessionLost"
    ELSE IF StartsWith(e.message, "Devin API error (status ") THEN "RemoteError"
    ELSE "Other"

\* The message of a RemoteError for a response: its status code and raw body.
RemoteErrorMessage(r) ==
    "Devin API error (status " \o ToString(r.status_code) \o "): " \o r.text

Is2xx(code) == code \in 200..299

\* The create response carries a session id.
HasSessionId(r) == r.json # None /\ "session_id" \in DOMAIN Val(r.json)

\* C5: the answer to the create POST is classified by its status: 401 gives
\* Unauthorized, 422 gives InvalidRequest with the raw body, any other status
\* outside 200-299 gives RemoteError with the status code and raw body, and
\* every status inside 200-299 (with a session id in the body) proceeds to
\* "Session created" and to polling.
C5_CreateClassifiedByStatus ==
    Len(responses) >= 1 =>
        LET r == responses[1]
            c == r.status_code
        IN  /\ c = 401 =>
                error # None /\ ErrorClass(Val(error)) = "Unauthorized"
            /\ c = 422 =>
                /\ error # None
                /\ ErrorClass(Val(error)) = "InvalidRequest"
                /\ EndsWith(Val(error).message, r.text)
            /\ (~Is2xx(c) /\ c \notin {401, 422}) =>
                /\ error # None
                /\ ErrorClass(Val(error)) = "RemoteError"
                /\ Val(error).message = RemoteErrorMessage(r)
            /\ (Is2xx(c) /\ HasSessionId(r)) =>
                /\ Len(sink) >= 2
                /\ sink[2] = "Session created: " \o Val(r.json)["session_id"]
                /\ Len(responses) = 1 =>
                    (error = None /\ pc \in {"poll", "await_get"})

\* C6: a poll answered 404 fails with SessionLost naming the session id that
\* create returned, one answered 401 fails with Unauthorized, and one
\* answered any other status outside 200-299 fails with RemoteError carrying
\* the status code and the body, at the first poll and at later ones.
C6_PollClassifiedByStatus ==
    (Len(PollsSeen) >= 1 /\ ~Is2xx(Last(PollsSeen).status_code)) =>
        LET r == Last(PollsSeen)
            c == r.status_code
            sid == Val(responses[1].json)["session_id"]
        IN  /\ pc = "failed"
            /\ error # None
            /\ c = 404 =>
                /\ ErrorClass(Val(error)) = "SessionLost"
                /\ Val(error).message =
                       "Session '" \o sid \o "' not found during monitoring."
            /\ c = 401 => ErrorClass(Val(error)) = "Unauthorized"
            /\ c \notin {404, 401} =>
                /\ ErrorClass(Val(error)) = "RemoteError"
                /\ Val(error).message = RemoteErrorMessage(r)

\* C6 witness: the second poll of session sess_456 answered 404.
C6_Witness ==
    /\ Len(PollsSeen) = 2
    /\ Last(PollsSeen).status_code = 404
    /\ error # None
    /\ Val(error).message = "Session 'sess_456' not found during monitoring."

C8_FailureIsFinal ==
    error # None =>
        /\ pc = "failed"
        /\ result = None
        /\ Last(trace) = "raise"
        /\ Cardinality({i \in 1..Len(trace) : trace[i] = "raise"}) = 1
        /\ Len(requests) = Len(responses)
        /\ TerminalEmissions = <<>>

\* C8 witness: the call failed on the answer to its second poll.
C8_Witness ==
    /\ pc = "failed"
    /\ Len(PollsSeen) = 2
    /\ Len(sleeps) = 1
    /\ Len(requests) = 3

\* DEVIN_API_KEY is absent or empty.
KeyMissing ==
    "DEVIN_API_KEY" \notin DOMAIN env \/ Val(env["DEVIN_API_KEY"]) = ""

\* C9: with DEVIN_API_KEY absent or empty the call fails with the
\* missing-credential error as its only effect: no request, no sink line.
C9_MissingKeyFailsFirst ==
    (KeyMissing /\ pc # "start") =>
        /\ pc = "failed"
        /\ error # None
        /\ ErrorClass(Val(error)) = "MissingCredential"
        /\ requests = <<>>
        /\ sink = <<>>
        /\ trace = <<"raise">>
        /\ result = None

\* C9 witness: the key is set to the empty string and the call has failed.
C9_Witness ==
    /\ "DEVIN_API_KEY" \in DOMAIN env
    /\ Val(env["DEVIN_API_KEY"]) = ""
    /\ pc = "failed"

\* C10: the body of the create POST has prompt, has no key for an optional
\* parameter the caller omitted, and has every parameter the caller passed
\* with a value other than its default, under its own key, with that value.
C10_BodyHasOnlySupplied ==
    requests # <<>> =>
        LET body == Val(requests[1].json)
        IN  /\ "prompt" \in DOMAIN body
            /\ body["prompt"] = kwargs["prompt"]
            /\ DOMAIN body \subseteq OptionalParams \cup {"prompt"}
            /\ \A k \in OptionalParams :
                /\ k \notin DOMAIN kwargs => k \notin DOMAIN body
                /\ (k \in DOMAIN kwargs
                    /\ (k \in {"idempotent", "unlisted"} => kwargs[k] = TRUE)) =>
                        (k \in DOMAIN body /\ body[k] = kwargs[k])

\* C10 witness: a POST for a call that passed an empty title and
\* idempotent=True and omitted tags and unlisted.
C10_Witness ==
    /\ requests # <<>>
    /\ DOMAIN kwargs = {"prompt", "title", "idempotent", "max_acu_limit"}
    /\ kwargs["title"] = ""
    /\ kwargs["max_acu_limit"] = 0
    /\ DOMAIN Val(requests[1].json) =
           {"prompt", "title", "idempotent", "max_acu_limit"}
    /\ Val(requests[1].json)["title"] = ""


\* C11: for every optional parameter, a call that passes it with its falsy
\* value (False, an empty list, an empty string, 0) sends it under its key
\* with that value, and its body differs from the body of the same call with
\* the parameter omitted.
C11_FalsyDistinctFromOmitted ==
    requests # <<>> =>
        LET body == Val(requests[1].json)
        IN  \A k \in OptionalParams :
                (k \in DOMAIN kwargs /\ kwargs[k] = FalsyValue(k)) =>
                    LET omitted == [j \in DOMAIN kwargs \ {k} |-> kwargs[j]]
                    IN  /\ k \in DOMAIN body
                        /\ body[k] = kwargs[k]
                        /\ body # BuildBody(Bind(omitted))

\* C11 for the seven parameters whose default is None: the statement above
\* without idempotent and unlisted.
C11_FalsyDistinctForNoneDefaults ==
    requests # <<>> =>
        LET body == Val(requests[1].json)
        IN  \A k \in OptionalParams \ {"idempotent", "unlisted"} :
                (k \in DOMAIN kwargs /\ kwargs[k] = FalsyValue(k)) =>
                    LET omitted == [j \in DOMAIN kwargs \ {k} |-> kwargs[j]]
                    IN  /\ k \in DOMAIN body
                        /\ body[k] = kwargs[k]
                        /\ body # BuildBody(Bind(omitted))


\* C13: after a poll answered with a status outside {finished, blocked,
\* expired}, or with no status field at all, the call has neither returned
\* nor failed: it reported "Status: {value}" ("Status: unknown" for a missing
\* field) as the latest status line and went on to the poll-interval wait.
C13_NonTerminalContinues ==
    (/\ Len(PollsSeen) >= 1
     /\ Answered(Last(PollsSeen))
     /\ ~HasTerminalStatus(Val(Last(PollsSeen).json))) =>
        LET d == Val(Last(PollsSeen).json)
            value == IF "status_enum" \in DOMAIN d
                     THEN d["status_enum"] ELSE "unknown"
        IN  /\ pc \in {"sleeping", "poll", "await_get"}
            /\ result = None
            /\ error = None
            /\ StatusEmissions # <<>>
            /\ Last(StatusEmissions) = "Status: " \o value
            /\ Len(sleeps) = Len(PollsSeen)

\* C13 witness: the first poll had no status_enum; "Status: unknown" was
\* reported and the call is waiting for its next poll.
C13_Witness ==
    /\ Len(PollsSeen) = 1
    /\ Answered(PollsSeen[1])
    /\ "status_enum" \notin DOMAIN Val(PollsSeen[1].json)
    /\ sink = <<"Creating Devin session...", "Session created: sess_123",
                "Status: unknown">>
    /\ pc = "sleeping"

\* C14: when create answers with session id X and the first poll answers a
\* terminal status s with an empty message list, the sink holds exactly
\* "Creating Devin session...", "Session created: X", "Status: s",
\* "Session s"; one POST and one GET were issued, no wait happened, and the
\* value returned is that poll's snapshot.
C14_ImmediateTerminal ==
    (/\ Len(responses) >= 2
     /\ Answered(responses[2])
     /\ HasTerminalStatus(Val(responses[2].json))
     /\ ReportedMessages(Val(responses[2].json)) = <<>>) =>
        LET X == Val(responses[1].json)["session_id"]
            s == Val(responses[2].json)["status_enum"]
        IN  /\ sink = <<"Creating Devin session...", "Session created: " \o X,
                        "Status: " \o s, "Session " \o s>>
            /\ Len(requests) = 2
            /\ requests[1].method = "POST"
            /\ requests[2].method = "GET"
            /\ sleeps = <<>>
            /\ trace = <<"emit", "POST", "emit", "GET", "emit", "emit", "return">>
            /\ result = Some(Val(responses[2].json))
            /\ Len(responses) = 2

\* C14 witness: session sess_456 was expired, with an empty list, at the
\* first poll.
C14_Witness ==
    /\ Len(responses) = 2
    /\ Answered(responses[2])
    /\ "messages" \in DOMAIN Val(responses[2].json)
    /\ Val(responses[2].json)["messages"] = <<>>
    /\ sink = <<"Creating Devin session...", "Session created: sess_456",
                "Status: expired", "Session expired">>
    /\ pc = "returned"

\* The requests and waits of the call, in order.
RequestsAndWaits == SelectSeq(trace, LAMBDA k : k \in {"POST", "GET", "sleep"})

\* The create POST was answered 200 with a session id.
CreateSucceeded ==
    /\ Len(responses) >= 1
    /\ responses[1].status_code = 200
    /\ responses[1].json # None
    /\ "session_id" \in DOMAIN Val(responses[1].json)

\* C18: the requests and waits of a call are one POST /sessions, then GETs of
\* /sessions/{id} with the id the POST's answer gave, every two consecutive
\* GETs separated by exactly one poll-interval wait; no GET comes before the
\* POST has succeeded, no wait comes before the first GET, a call that has
\* ended has no wait after its last GET, and at most one request is
\* unanswered at any time.
C18_RequestTraceShape ==
    LET p == RequestsAndWaits
    IN  /\ \A i \in 1..Len(p) :
            p[i] = (IF i = 1 THEN "POST"
                    ELSE IF i % 2 = 0 THEN "GET" ELSE "sleep")
        /\ \A i \in 1..Len(requests) :
            /\ requests[i].method = (IF i = 1 THEN "POST" ELSE "GET")
            /\ i = 1 => requests[i].url = "https://api.devin.ai/v1/sessions"
            /\ i > 1 =>
                /\ CreateSucceeded
                /\ requests[i].url =
                       "https://api.devin.ai/v1/sessions/"
                       \o Val(responses[1].json)["session_id"]
        /\ Len(requests) - Len(responses) \in {0, 1}
        /\ \A i \in 1..Len(sleeps) : sleeps[i] = 10
        /\ (pc \in {"returned", "failed"} /\ Len(p) >= 2) => Last(p) = "GET"

\* C18 witness: a call that returned at its third GET of session sess_456.
C18_Witness ==
    /\ pc = "returned"
    /\ RequestsAndWaits = <<"POST", "GET", "sleep", "GET", "sleep", "GET">>
    /\ requests[4].url = "https://api.devin.ai/v1/sessions/sess_456"

Max(S) == CHOOSE x \in S : \A y \in S : y <= x

\* The longest message list among the first n successful polls (0 for none).
Watermark(n) ==
    Max({0} \cup {Len(ReportedMessages(SnapshotsSeen[i])) : i \in 1..n})

\* The message lines the first n successful polls give when each poll
\* reports the elements of its list beyond the watermark of the polls before.
RECURSIVE LinesBeyondWatermark(_)
LinesBeyondWatermark(n) ==
    IF n = 0 THEN <<>>
    ELSE LET m == ReportedMessages(SnapshotsSeen[n])
             new == SubSeq(m, Watermark(n - 1) + 1, Len(m))
         IN  LinesBeyondWatermark(n - 1)
             \o [i \in 1..Len(new) |->
                    "[" \o new[i]["type"] \o "] " \o new[i]["message"]]

\* C19: last_message_count is the largest message-list length seen so far;
\* a poll whose list is no longer than it reports no message, and a longer
\* list reports only its elements beyond it, whatever the lower indexes
\* hold.
C19_WatermarkIsMaxLength ==
    /\ last_message_count = Watermark(Len(SnapshotsSeen))
    /\ MessageEmissions = LinesBeyondWatermark(Len(SnapshotsSeen))

\* C19 witness: the list was [Hello], then empty, then [Hi there!, Hello]:
\* "Hi there!", at an index below the watermark, was never reported.
C19_Witness ==
    /\ Len(SnapshotsSeen) = 3
    /\ Len(ReportedMessages(SnapshotsSeen[1])) = 1
    /\ Len(ReportedMessages(SnapshotsSeen[2])) = 0
    /\ Len(ReportedMessages(SnapshotsSeen[3])) = 2
    /\ ReportedMessages(SnapshotsSeen[3])[1]["message"] = "Hi there!"
    /\ MessageEmissions = <<"[user_message] Hello", "[user_message] Hello">>
    /\ last_message_count = 2


\* The text the sink must show for a content c.
ReportedText(c) ==
    IF Len(c) > 200 THEN SubSeq(c, 1, 200) \o "..." ELSE c

\* The message lines of the first n successful polls, each message beyond
\* the watermark shown as "[type] " and the text for its content.
RECURSIVE ReportedLines(_)
ReportedLines(n) ==
    IF n = 0 THEN <<>>
    ELSE LET m == ReportedMessages(SnapshotsSeen[n])
             new == SubSeq(m, Watermark(n - 1) + 1, Len(m))
         IN  ReportedLines(n - 1)
             \o [i \in 1..Len(new) |->
                    "[" \o (IF "type" \in DOMAIN new[i]
                            THEN new[i]["type"] ELSE "message") \o "] "
                    \o ReportedText(IF "message" \in DOMAIN new[i]
                                    THEN new[i]["message"] ELSE "")]

\* C12: every message is reported with its content unchanged when the
\* content has at most 200 characters (200 exactly and the empty string
\* included), and with its first 200 characters followed by "...", 203
\* characters in all, when it has more.
C12_TruncatesBeyond200 ==
    /\ MessageEmissions = ReportedLines(Len(SnapshotsSeen))
    /\ \A n \in ContentLengths :
        LET c == Content(n)
            shown == Display(c)
        IN  /\ Len(c) = n
            /\ n <= 200 => shown = c
            /\ n > 200 =>
                /\ Len(shown) = 203
                /\ SubSeq(shown, 1, 200) = SubSeq(c, 1, 200)
                /\ SubSeq(shown, 201, 203) = "..."

\* C12 witness: contents of 200 and of 201 characters were both reported,
\* the first whole and the second cut to 200 characters and "...".
C12_Witness ==
    /\ Len(SnapshotsSeen) = 2
    /\ ReportedMessages(SnapshotsSeen[1]) =
           <<[type |-> "devin_message", message |-> Content(200)]>>
    /\ ReportedMessages(SnapshotsSeen[2]) =
           <<RemoteLog(1)[1], [type |-> "devin_message", message |-> Content(201)]>>
    /\ MessageEmissions = <<"[devin_message] " \o Content(200),
                            "[devin_message] " \o Content(200) \o "...">>


Count(q, x) == Len(SelectSeq(q, LAMBDA k : k = x))

\* C15: once a call has been cancelled, at the poll-interval wait or at any
\* other await, the cancellation is the last effect of the call: no request,
\* no sink text and no return come after it, and nothing is returned.
C15_CancelEndsTheCall ==
    Count(trace, "cancel") >= 1 =>
        /\ Last(trace) = "cancel"
        /\ Count(trace, "cancel") = 1
        /\ pc = "cancelled"
        /\ result = None
        /\ Count(trace, "return") = 0
        /\ Len(sink) = Count(trace, "emit")
        /\ Len(requests) = Count(trace, "POST") + Count(trace, "GET")
        /\ Len(sleeps) = Count(trace, "sleep")

\* C15 witness: a call cancelled during its second poll-interval wait.
C15_Witness ==
    /\ pc = "cancelled"
    /\ Len(trace) >= 2
    /\ trace[Len(trace) - 1] = "sleep"
    /\ Len(sleeps) = 2
    /\ TerminalEmissions = <<>>


\* What a call with frame f would have done alone, from the responses it
\* was given: its polls, and the texts they put in the sink.
SoloSnapshot(f, i) == Val(f.responses[i + 1].json)

RECURSIVE SoloPollLines(_, _)
SoloPollLines(f, n) ==
    IF n <= 0 THEN <<>>
    ELSE LET s == SoloSnapshot(f, n)["status_enum"]
             m == SoloSnapshot(f, n)["messages"]
             seen == Max({0} \cup
                         {Len(SoloSnapshot(f, i)["messages"]) : i \in 1..(n - 1)})
         IN  SoloPollLines(f, n - 1)
             \o (IF n = 1 \/ SoloSnapshot(f, n - 1)["status_enum"] # s
                 THEN <<"Status: " \o s>> ELSE <<>>)
             \o [i \in 1..(Len(m) - seen) |->
                    "[" \o m[seen + i]["type"] \o "] " \o m[seen + i]["message"]]
             \o (IF s \in {"finished", "blocked", "expired"}
                 THEN <<"Session " \o s>> ELSE <<>>)

SoloSink(f) ==
    (IF f.pc = "start" THEN <<>> ELSE <<"Creating Devin session...">>)
    \o (IF f.responses = <<>> THEN <<>>
        ELSE <<"Session created: " \o Val(f.responses[1].json)["session_id"]>>)
    \o SoloPollLines(f, Len(f.responses) - 1)

RanAsIfAlone(f) ==
    LET polls == Len(f.responses) - 1
    IN  /\ f.sink = SoloSink(f)
        /\ f.result =
               (IF polls >= 1 /\ SoloSnapshot(f, polls)["status_enum"]
                                    \in {"finished", "blocked", "expired"}
                THEN Some(SoloSnapshot(f, polls)) ELSE None)
        /\ f.error = None
        /\ polls >= 1 =>
            /\ f.last_status = Some(SoloSnapshot(f, polls)["status_enum"])
            /\ f.last_message_count =
                   Max({Len(SoloSnapshot(f, i)["messages"]) : i \in 1..polls})
        /\ polls < 1 => (f.last_status = None /\ f.last_message_count = 0)
        /\ \A i \in 2..Len(f.requests) :
            /\ f.session_id = Some(Val(f.responses[1].json)["session_id"])
            /\ f.requests[i].url =
                   "https://api.devin.ai/v1/sessions/" \o Val(f.session_id)
            /\ i - 1 <= polls =>
                   SoloSnapshot(f, i - 1)["session_id"] = Val(f.session_id)

\* C16: with two calls interleaved at their awaits in any order, each call
\* has the sink texts, the result, the last_status and the
\* last_message_count that its own responses give a call running alone, it
\* polls the session its own POST created and no other, and the two sessions
\* differ.
C16_CallsAreIndependent ==
    /\ RanAsIfAlone(Frame)
    /\ RanAsIfAlone(other)
    /\ (session_id # None /\ other.session_id # None) =>
           session_id # other.session_id

\* C16 witness: one call has returned from a finished session with two
\* messages while the other, two polls into a working session with no
\* message, is suspended in its wait.
C16_Witness ==
    /\ pc = "returned"
    /\ sink = <<"Creating Devin session...", "Session created: sess_456",
                "Status: working", "[user_message] Hello",
                "Status: finished", "[devin_message] Hi there!",
                "Session finished">>
    /\ other.pc = "sleeping"
    /\ other.sink = <<"Creating Devin session...", "Session created: sess_123",
                      "Status: working">>
    /\ Len(other.sleeps) = 2


\* The model's poll budget is used up: the call is about to poll again.
BudgetUsed == pc = "poll" /\ Len(GetsIssued) = MaxPolls

RemoteIsTerminal == RemoteStatus \in {"finished", "blocked", "expired"}

\* No poll so far was answered with a terminal status.
NoTerminalPoll ==
    \A i \in 1..Len(SnapshotsSeen) : ~HasTerminalStatus(SnapshotsSeen[i])

\* C17: the call never ends by itself: it has returned only a snapshot with
\* a terminal status that a poll observed, and a terminal status the remote
\* held without a poll observing it leaves the call running.  Under a fair
\* event loop and with every request succeeding, a call whose remote stays
\* non-terminal polls on until the model's budget of polls is used up, and
\* a call whose remote is terminal for good while polls are left
\* eventually returns.
C17_PollsUntilTerminal ==
    /\ [](pc = "returned" =>
            /\ result # None
            /\ HasTerminalStatus(Val(result))
            /\ Val(result) = Last(SnapshotsSeen))
    /\ [](NoTerminalPoll => (pc # "returned" /\ result = None /\ error = None))
    /\ ([]~RemoteIsTerminal) => <>BudgetUsed
    /\ []((Len(GetsIssued) < MaxPolls /\ []RemoteIsTerminal) => <>(result # None))

\* C17 witness: the remote was finished between the first two polls and
\* working again at the second; the call is in its second wait.
C17_Witness ==
    /\ Len(SnapshotsSeen) = 2
    /\ NoTerminalPoll
    /\ remote = <<"working", "finished", "working">>
    /\ pc = "sleeping"
    /\ result = None

====
